---- MODULE Spec2Model ----
(***************************************************************************)
(* Model of the asynchronous fetch engine of project/scraper.py:           *)
(*   send_urlib_request_async  one runner: the continuation loop            *)
(*   urlib_request_worker      one pool worker                              *)
(*   handle_queries            the scheduler (direct mode / pooled mode)    *)
(* One action is one step of a coroutine between two suspension points of  *)
(* the asyncio event loop (session.get, response.text, gather, queue.get,  *)
(* queue.join).                                                            *)
(***************************************************************************)
EXTENDS Integers, Sequences, FiniteSets, TLC

\* ---------------------------------------------------------------- bounds
\* Scaled ceiling and pool size under which the interleavings are explored
\* (the program's own values are N_MAX_WORKERS and N_WORKERS below).
SmallCeiling == 2
SmallPool == 2
\* Pages the remote API serves for one query: under Spec (the scheduler with
\* every descriptor count up to the ceiling and one more) and under
\* SpecRunner (the runners of direct mode).
SchedPages == 1
MaxPages == 3
\* Requests the environment may fail during one run of handle_queries.
MaxFailures == 2
\* Descriptor counts beyond the program's ceiling explored by SpecMode.
ModeMargin == 3
\* Retry limit the specification asks for ("a small fixed number").
RetryLimit == 1

\* ------------------------------------------------------ program constants
N_MAX_WORKERS == 200
N_WORKERS == 50

\* Python's None (contin = None, query_info["name"] = None)
None == 0

MaxQueries == SmallCeiling + 1

\* ----------------------------------------------------------------- values
\* A Python list, a Python dict (insertion-ordered key/value pairs), the
\* single-entry dict {name: results} and a value of any other type.
PyList(s) == [type |-> "list", items |-> s]
PyDict(p) == [type |-> "dict", pairs |-> p]
PyNamed(nm, r) == [type |-> "dict", key |-> nm, value |-> r]
PyOther == [type |-> "other"]
\* the outcome of a statement that raises
PyRaise == [type |-> "raise"]

\* Mutant of Extend: the page is put in front of the accumulated list.
ExtendFront(r, c) == PyList(c.items \o r.items)

\* list.extend
Extend(r, c) == PyList(r.items \o c.items)

RECURSIVE Keys(_)
Keys(p) == IF p = <<>> THEN {} ELSE {p[1][1]} \cup Keys(Tail(p))

RECURSIVE Lookup(_, _)
\* value of key k in the pairs p (k is a key of p)
Lookup(p, k) == IF p[1][1] = k THEN p[1][2] ELSE Lookup(Tail(p), k)

RECURSIVE NewPairs(_, _)
\* the pairs of c whose key is not a key of p, in c's order
NewPairs(p, c) ==
    IF c = <<>> THEN <<>>
    ELSE IF c[1][1] \in Keys(p) THEN NewPairs(p, Tail(c))
         ELSE <<c[1]>> \o NewPairs(p, Tail(c))

\* Mutant of DictUpdate: a key already there keeps its earlier value.
DictSetDefault(r, c) == PyDict(r.pairs \o NewPairs(r.pairs, c.pairs))

\* dict |= dict: keys of r keep their position and take c's value when c has
\* the key; the new keys of c follow in c's order
DictUpdate(r, c) ==
    PyDict([n \in 1..Len(r.pairs) |->
               IF r.pairs[n][1] \in Keys(c.pairs)
               THEN <<r.pairs[n][1], Lookup(c.pairs, r.pairs[n][1])>>
               ELSE r.pairs[n]]
           \o NewPairs(r.pairs, c.pairs))

VARIABLES
    queries,     \* the descriptors handed to handle_queries
    handler,     \* the response handler, by the shape of its payloads
    npages,      \* pages the API serves for each descriptor's query, once
                 \* its last page is served (0 before)
    hq,          \* handle_queries: pc, mode, wikitexts (its return value)
    runner,      \* send_urlib_request_async, one per descriptor
    nfail,       \* requests failed so far by the environment
    finished,    \* direct mode: runners in completion order (as_completed)
    res,         \* direct mode: (index, result) pairs collected by gather
    pbar,        \* completion events received by the progress bar
    queue,       \* pooled mode: the asyncio.Queue items
    unfinished,  \* pooled mode: asyncio.Queue unfinished task count
    results_p,   \* pooled mode: the shared result list
    worker       \* pooled mode: urlib_request_worker tasks

vars == <<queries, handler, npages, hq, runner, nfail, finished, res, pbar,
          queue, unfinished, results_p, worker>>

Handlers == {"list", "dict", "listdict", "dictlist"}

\* ------------------------------------------------------------ remote API
\* The page a URL asks for: the base query asks for page 1, the query
\* followed by continuation token j asks for page j + 1; any other URL is
\* not one the API serves (page 0).
PageOf(url) ==
    IF Len(url) = 1 THEN 1
    ELSE IF Len(url) = 2 THEN url[2] + 1
    ELSE 0

Item(q, j, n) == 100 * q + 10 * j + n

\* The type of the payload the handler extracts from page j: the handlers
\* "list" and "dict" return one type for every page; "listdict" returns a
\* list for the first page and a dict for the later ones, "dictlist" a dict
\* first and lists later.
Shape(h, j) ==
    IF h \in {"list", "dict"} THEN h
    ELSE IF h = "listdict" THEN (IF j = 1 THEN "list" ELSE "dict")
    ELSE (IF j = 1 THEN "dict" ELSE "list")

\* The payload the handler extracts from page j of query q.
Payload(h, q, j) ==
    IF Shape(h, j) = "list"
    THEN PyList(IF j = 1 THEN <<Item(q, j, 1), Item(q, j, 2)>>
                ELSE <<Item(q, j, 1)>>)
    ELSE PyDict(IF j = 1 THEN << <<"x", Item(q, j, 1)>> >>
                ELSE IF j = 2
                THEN << <<"x", Item(q, j, 1)>>, <<"y", Item(q, j, 2)>> >>
                ELSE << <<"z", Item(q, j, 1)>>, <<"y", Item(q, j, 2)>> >>)

\* response_handler(wikitext_json): (curr_results, contin)
response_handler(h, np, url) ==
    [curr_results |-> Payload(h, url[1], PageOf(url)),
     contin |-> IF PageOf(url) < np THEN PageOf(url) ELSE None]

\* -------------------------------------------------------------- runner
NewRunner ==
    [pc |-> "new", results |-> PyList(<<>>), request_count |-> 0,
     contin |-> None, requests |-> <<>>, ret |-> PyOther, nfailed |-> 0]

\* curr_query = query + contin, or query
CurrQuery(query, contin) ==
    IF contin # None THEN query \o <<contin>> ELSE query

\* The merge of one page into results (lines 197-205); "error" when the
\* statement raises.
Merge(request_count, results, curr) ==
    IF request_count = 1 THEN curr
    ELSE IF curr.type = "list"
         THEN IF results.type = "list" THEN Extend(results, curr)
              ELSE PyRaise
    ELSE IF curr.type = "dict"
         THEN IF results.type = "dict" THEN DictUpdate(results, curr)
              ELSE PyRaise
    ELSE results

\* Mutant of Wrap: the result is wrapped without the test of the name.
WrapAlways(name, results) == PyNamed(name, results)

\* lines 210-213
Wrap(name, results) ==
    IF name # None THEN PyNamed(name, results) ELSE results

\* Mutant of LoopHead: the accumulated list is one object shared by the
\* coroutines (a mutable default), so that a runner returns the items of a
\* runner that finished before it in front of its own.
LoopHeadShared(r, q) ==
    IF r.contin # None \/ r.request_count = 0
    THEN [r EXCEPT !.pc = "get",
                   !.request_count = @ + 1,
                   !.requests = Append(@, CurrQuery(q.query, r.contin))]
    ELSE [r EXCEPT !.pc = "done",
                   !.ret =
                       IF \E j \in DOMAIN runner : runner[j].pc = "done"
                       THEN Wrap(q.name,
                                 Extend(runner[CHOOSE j \in DOMAIN runner :
                                                  runner[j].pc = "done"].results,
                                        r.results))
                       ELSE Wrap(q.name, r.results)]

\* Mutant of LoopHead: the loop goes on while nothing was fetched
\* (while contin is not None or results == []).
LoopHeadRetryEmpty(r, q) ==
    IF r.contin # None \/ r.results = PyList(<<>>)
    THEN [r EXCEPT !.pc = "get",
                   !.request_count = @ + 1,
                   !.requests = Append(@, CurrQuery(q.query, r.contin))]
    ELSE [r EXCEPT !.pc = "done", !.ret = Wrap(q.name, r.results)]

\* Mutant of LoopHead: the token is appended to the URL of the request
\* before (query = query + contin), so that the tokens pile up.
LoopHeadAccumulate(r, q) ==
    IF r.contin # None \/ r.request_count = 0
    THEN [r EXCEPT !.pc = "get",
                   !.request_count = @ + 1,
                   !.requests =
                       Append(@, IF r.requests = <<>> THEN q.query
                                 ELSE r.requests[Len(r.requests)]
                                          \o <<r.contin>>)]
    ELSE [r EXCEPT !.pc = "done", !.ret = Wrap(q.name, r.results)]

\* The head of the while loop after a loop body, up to the next suspension:
\* either the next request is issued or the coroutine returns.
LoopHead(r, q) ==
    IF r.contin # None \/ r.request_count = 0
    THEN [r EXCEPT !.pc = "get",
                   !.request_count = @ + 1,
                   !.requests = Append(@, CurrQuery(q.query, r.contin))]
    ELSE [r EXCEPT !.pc = "done", !.ret = Wrap(q.name, r.results)]

\* The URL of the request runner r waits on.
LastUrl(r) == r.requests[Len(r.requests)]

\* The try block (lines 190-207) on a response that is read and decoded.
\* The handler raises on a response without the page; an exception of the
\* merge is swallowed after contin has been assigned.
TryBlock(r, h, np) ==
    LET url == LastUrl(r)
        hr == response_handler(h, np, url)
        m == Merge(r.request_count, r.results, hr.curr_results)
    IN  IF PageOf(url) = 0 THEN r
        ELSE [r EXCEPT !.contin = hr.contin,
                       !.results = IF m.type = "raise" THEN @ ELSE m]

N == Len(queries)

\* Errors raised by session.get (outside the try block) and errors raised
\* inside the try block (response.text, json.loads, response_handler).
GetErrors == {"connection error", "timeout"}
TryErrors == {"timeout", "undecodable body", "handler error"}

\* handle_queries is called: any descriptor list of up to MaxQueries
\* descriptors, all named by their title or all without a name.
InitAll ==
    /\ \E n \in 0..MaxQueries, named \in BOOLEAN :
          queries = [i \in 1..n |->
                        [query |-> <<i>>, name |-> IF named THEN i ELSE None]]
    /\ handler \in Handlers
    /\ npages = [i \in 1..Len(queries) |-> 0]
    /\ hq = [pc |-> "start", mode |-> "none", wikitexts |-> <<>>]
    /\ runner = [i \in 1..Len(queries) |-> NewRunner]
    /\ nfail = 0
    /\ finished = <<>>
    /\ res = <<>>
    /\ pbar = 0
    /\ queue = <<>>
    /\ unfinished = 0
    /\ results_p = <<>>
    /\ worker = <<>>

\* The scheduler is explored with a handler of list payloads.
Init == InitAll /\ handler = "list"

\* ------------------------------------------------------- handle_queries
\* Mutant of UseDirect: the ceiling itself goes to the pool.
UseDirectStrict(n, ceiling) == n < ceiling

\* len(queries) <= N_MAX_WORKERS
UseDirect(n, ceiling) == n <= ceiling

\* Mutant of GatherResult: the results in the order of completion.
GatherCompletionOrder(rs) == [k \in 1..Len(rs) |-> rs[k][2]]

\* tqdm.gather returns [i for _, i in sorted(res)]: the results by the index
\* of their coroutine
GatherResult(rs) ==
    [k \in 1..Len(rs) |-> rs[CHOOSE j \in 1..Len(rs) : rs[j][1] = k][2]]

NewWorker == [pc |-> "new", cur |-> 0]

\* Mutant of Workers: one worker too many.
WorkersOneMore(nworkers) == [w \in 1..(nworkers + 1) |-> NewWorker]

\* line 245: the pool of worker tasks
Workers(nworkers) == [w \in 1..nworkers |-> NewWorker]

\* Mutant of ResultsAppend: an empty result is not appended.
ResultsAppendNonEmpty(rp, ret) ==
    IF ret = PyList(<<>>) THEN rp ELSE Append(rp, ret)

\* line 219: results_p.append(...)
ResultsAppend(rp, ret) == Append(rp, ret)

\* Mutant of TaskDone: the item is acknowledged twice (once in the body and
\* once more in a finally clause).
TaskDoneTwice(u) == IF u >= 2 THEN u - 2 ELSE 0

\* line 221: queue.task_done() takes one from the unfinished items
TaskDone(u) == u - 1

\* Mutant of PbarUpdate: the bar is advanced twice for one descriptor.
PbarUpdateTwice(p) == p + 2

\* line 220: pbar.update(1)
PbarUpdate(p) == p + 1

\* handle_queries up to its first suspension: the gather of line 229, or
\* the queue.join() of line 251 after the workers are created and every
\* descriptor is put on the (unbounded) queue.
HandleQueriesStart(ceiling, nworkers) ==
    /\ hq.pc = "start"
    /\ IF UseDirect(N, ceiling)
       THEN /\ hq' = IF N = 0
                     THEN [hq EXCEPT !.pc = "returned", !.mode = "direct"]
                     ELSE [hq EXCEPT !.pc = "gather", !.mode = "direct"]
            /\ UNCHANGED <<queue, unfinished, worker>>
       ELSE /\ hq' = [hq EXCEPT !.pc = "join", !.mode = "pooled"]
            /\ queue' = [i \in 1..N |-> i]
            /\ unfinished' = N
            /\ worker' = Workers(nworkers)
    /\ UNCHANGED <<queries, handler, npages, runner, nfail, finished, res,
                   pbar, results_p>>

\* The worker that runs descriptor i.
WorkerOf(i) ==
    CHOOSE w \in DOMAIN worker : worker[w].pc = "run" /\ worker[w].cur = i

\* Mutant of QueueGet: the worker takes the item that was put last
\* (a LifoQueue).
QueueGetLifo(w, rn, wk) ==
    IF queue # <<>>
    THEN /\ queue' = SubSeq(queue, 1, Len(queue) - 1)
         /\ runner' = [rn EXCEPT ![queue[Len(queue)]] =
                           LoopHead(NewRunner, queries[queue[Len(queue)]])]
         /\ worker' = [wk EXCEPT ![w] =
                           [pc |-> "run", cur |-> queue[Len(queue)]]]
    ELSE /\ queue' = queue
         /\ runner' = rn
         /\ worker' = [wk EXCEPT ![w] = [pc |-> "wait", cur |-> 0]]

\* await queue.get() of line 218 by worker w and, when an item is there,
\* the runner of that item up to its first request.
QueueGet(w, rn, wk) ==
    IF queue # <<>>
    THEN /\ queue' = Tail(queue)
         /\ runner' = [rn EXCEPT ![Head(queue)] =
                           LoopHead(NewRunner, queries[Head(queue)])]
         /\ worker' = [wk EXCEPT ![w] = [pc |-> "run", cur |-> Head(queue)]]
    ELSE /\ queue' = queue
         /\ runner' = rn
         /\ worker' = [wk EXCEPT ![w] = [pc |-> "wait", cur |-> 0]]

\* What follows a step of runner i that leaves it as r2.
\* Direct mode: a finished runner completes its task (as_completed).
\* Pooled mode: the worker goes on without suspension: lines 219-221 when the
\* runner returned, then line 218 again; the worker task ends when the
\* runner raised.
Resume(i, r2) ==
    IF hq.mode = "direct"
    THEN /\ runner' = [runner EXCEPT ![i] = r2]
         /\ finished' = IF r2.pc \in {"done", "raised"}
                        THEN Append(finished, i) ELSE finished
         /\ UNCHANGED <<queue, unfinished, results_p, worker, pbar>>
    ELSE /\ finished' = finished
         /\ IF r2.pc = "done"
            THEN /\ results_p' = ResultsAppend(results_p, r2.ret)
                 /\ pbar' = PbarUpdate(pbar)
                 /\ unfinished' = TaskDone(unfinished)
                 /\ QueueGet(WorkerOf(i), [runner EXCEPT ![i] = r2], worker)
            ELSE /\ runner' = [runner EXCEPT ![i] = r2]
                 /\ worker' = IF r2.pc = "raised"
                              THEN [worker EXCEPT ![WorkerOf(i)].pc = "dead"]
                              ELSE worker
                 /\ UNCHANGED <<queue, unfinished, results_p, pbar>>

\* Direct mode: the task of coroutine i starts and issues its first request.
RunnerStart(i) ==
    /\ hq.mode = "direct"
    /\ runner[i].pc = "new"
    /\ Resume(i, LoopHead(runner[i], queries[i]))
    /\ UNCHANGED <<queries, handler, npages, hq, nfail, res>>

\* session.get answers: the response headers are there.
GetOk(i) ==
    /\ runner[i].pc = "get"
    /\ Resume(i, [runner[i] EXCEPT !.pc = "text"])
    /\ UNCHANGED <<queries, handler, npages, hq, nfail, res>>

\* session.get raises (line 189 is outside the try block): the exception
\* leaves send_urlib_request_async.
GetRaise(i) ==
    /\ runner[i].pc = "get"
    /\ nfail < MaxFailures
    /\ \E e \in GetErrors :
          /\ nfail' = nfail + 1
          /\ Resume(i, [runner[i] EXCEPT !.pc = "raised", !.nfailed = @ + 1])
    /\ UNCHANGED <<queries, handler, npages, hq, res>>

\* response.text() answers and the try block runs; then the loop goes on.
\* The API serves the page with a continuation, or as the last page of
\* the query (it serves at most maxp pages).
TextOk(i, maxp) ==
    /\ runner[i].pc = "text"
    /\ \E np \in 1..maxp :
          /\ IF npages[i] # 0 THEN np = npages[i]
             ELSE np >= PageOf(LastUrl(runner[i]))
                  /\ np <= PageOf(LastUrl(runner[i])) + 1
          /\ npages' = IF np = PageOf(LastUrl(runner[i]))
                       THEN [npages EXCEPT ![i] = np] ELSE npages
          /\ Resume(i, LoopHead(TryBlock(runner[i], handler, np),
                                queries[i]))
    /\ UNCHANGED <<queries, handler, hq, nfail, res>>

\* An exception inside the try block is swallowed by the bare except of
\* line 206; then the loop goes on.
TextRaise(i) ==
    /\ runner[i].pc = "text"
    /\ nfail < MaxFailures
    /\ \E e \in TryErrors :
          /\ nfail' = nfail + 1
          /\ Resume(i, LoopHead([runner[i] EXCEPT !.nfailed = @ + 1],
                                queries[i]))
    /\ UNCHANGED <<queries, handler, npages, hq, res>>

\* tqdm.gather awaits the next completed coroutine: its result is collected
\* with its index (and the bar advances), or its exception leaves gather
\* and handle_queries. After the last one the sorted results are returned.
GatherNext ==
    /\ hq.pc = "gather"
    /\ Len(res) < Len(finished)
    /\ LET i == finished[Len(res) + 1]
           rs == Append(res, <<i, runner[i].ret>>)
       IN  IF runner[i].pc = "raised"
           THEN /\ hq' = [hq EXCEPT !.pc = "raised"]
                /\ UNCHANGED <<res, pbar>>
           ELSE /\ res' = rs
                /\ pbar' = pbar + 1
                /\ hq' = IF Len(rs) = N
                         THEN [hq EXCEPT !.pc = "returned",
                                         !.wikitexts = GatherResult(rs)]
                         ELSE hq
    /\ UNCHANGED <<queries, handler, npages, runner, nfail, finished, queue,
                   unfinished, results_p, worker>>

\* Pooled mode: worker task w starts (line 218).
WorkerStart(w) ==
    /\ hq.pc = "join"
    /\ worker[w].pc = "new"
    /\ QueueGet(w, runner, worker)
    /\ UNCHANGED <<queries, handler, npages, hq, nfail, finished, res, pbar,
                   unfinished, results_p>>

\* Mutant of JoinReturn: handle_queries waits until the queue is empty
\* (queue.empty()) instead of queue.join().
JoinReturnEarly ==
    /\ hq.pc = "join"
    /\ queue = <<>>
    /\ hq' = [hq EXCEPT !.pc = "returned", !.wikitexts = results_p]
    /\ worker' = [w \in DOMAIN worker |->
                     IF worker[w].pc = "dead" THEN worker[w]
                     ELSE [worker[w] EXCEPT !.pc = "cancelled"]]
    /\ UNCHANGED <<queries, handler, npages, runner, nfail, finished, res,
                   pbar, queue, unfinished, results_p>>

\* queue.join() returns once every item is acknowledged; the workers are
\* cancelled (lines 254-255) and results_p is returned.
JoinReturn ==
    /\ hq.pc = "join"
    /\ unfinished = 0
    /\ hq' = [hq EXCEPT !.pc = "returned", !.wikitexts = results_p]
    /\ worker' = [w \in DOMAIN worker |->
                     IF worker[w].pc = "dead" THEN worker[w]
                     ELSE [worker[w] EXCEPT !.pc = "cancelled"]]
    /\ UNCHANGED <<queries, handler, npages, runner, nfail, finished, res,
                   pbar, queue, unfinished, results_p>>

Next ==
    \/ HandleQueriesStart(SmallCeiling, SmallPool)
    \/ \E i \in 1..N : RunnerStart(i)
    \/ \E i \in 1..N : GetOk(i)
    \/ \E i \in 1..N : GetRaise(i)
    \/ \E i \in 1..N : TextOk(i, SchedPages)
    \/ \E i \in 1..N : TextRaise(i)
    \/ GatherNext
    \/ \E w \in DOMAIN worker : WorkerStart(w)
    \/ JoinReturn

\* The scheduler: every descriptor count from 0 to one more than the ceiling.
Spec == Init /\ [][Next]_vars

\* The runners of direct mode, with up to MaxPages pages a query and
\* descriptors without a name.
InitDirect ==
    /\ InitAll
    /\ N \in 1..SmallCeiling
    /\ \A i \in 1..N : queries[i].name = None

\* ... with a handler of list payloads, and with one of dict payloads.
InitRunner == InitDirect /\ handler = "list"
InitDict == InitDirect /\ handler = "dict"

NextRunner ==
    \/ HandleQueriesStart(SmallCeiling, SmallPool)
    \/ \E i \in 1..N : RunnerStart(i)
    \/ \E i \in 1..N : GetOk(i)
    \/ \E i \in 1..N : GetRaise(i)
    \/ \E i \in 1..N : TextOk(i, MaxPages)
    \/ \E i \in 1..N : TextRaise(i)
    \/ GatherNext

SpecRunner == InitRunner /\ [][NextRunner]_vars
SpecDict == InitDict /\ [][NextRunner]_vars

\* The choice of the mode with the program's own ceiling and pool size.
InitMode ==
    /\ \E n \in 0..(N_MAX_WORKERS + ModeMargin) :
          queries = [i \in 1..n |-> [query |-> <<i>>, name |-> None]]
    /\ handler = "list"
    /\ npages = [i \in 1..Len(queries) |-> 0]
    /\ hq = [pc |-> "start", mode |-> "none", wikitexts |-> <<>>]
    /\ runner = [i \in 1..Len(queries) |-> NewRunner]
    /\ nfail = 0
    /\ finished = <<>>
    /\ res = <<>>
    /\ pbar = 0
    /\ queue = <<>>
    /\ unfinished = 0
    /\ results_p = <<>>
    /\ worker = <<>>

NextMode == HandleQueriesStart(N_MAX_WORKERS, N_WORKERS)

SpecMode == InitMode /\ [][NextMode]_vars

\* Every response arrives in the end, as an answer or as an error (every
\* request is bounded by the 30 s timeout of its session), and the event
\* loop runs every task that is ready.
FairSpec ==
    /\ Spec
    /\ WF_vars(HandleQueriesStart(SmallCeiling, SmallPool))
    /\ \A i \in 1..MaxQueries : WF_vars(i \in 1..N /\ RunnerStart(i))
    /\ \A i \in 1..MaxQueries :
          WF_vars(i \in 1..N /\ (GetOk(i) \/ GetRaise(i)))
    /\ \A i \in 1..MaxQueries :
          WF_vars(i \in 1..N /\ (TextOk(i, SchedPages) \/ TextRaise(i)))
    /\ WF_vars(GatherNext)
    /\ \A w \in 1..SmallPool : WF_vars(w \in DOMAIN worker /\ WorkerStart(w))
    /\ WF_vars(JoinReturn)

TypeOK ==
    /\ hq.pc \in {"start", "gather", "join", "returned", "raised",
                 "cancelled"}
    /\ \A i \in 1..N : runner[i].pc \in {"new", "get", "text", "done", "raised"}
    /\ nfail \in 0..MaxFailures

\* --------------------------------------------------------------- scrape_wiki
\* The revision queries: every descriptor is named by its page title. The
\* titles are pairwise distinct, or the last descriptor asks for the page of
\* the first one again (a page listed under two categories).
InitNamed ==
    /\ \E n \in 1..MaxQueries, again \in BOOLEAN :
          queries = [i \in 1..n |->
                        LET title == IF again /\ i = n THEN 1 ELSE i
                        IN  [query |-> <<title>>, name |-> title]]
    /\ handler = "list"
    /\ npages = [i \in 1..Len(queries) |-> 0]
    /\ hq = [pc |-> "start", mode |-> "none", wikitexts |-> <<>>]
    /\ runner = [i \in 1..Len(queries) |-> NewRunner]
    /\ nfail = 0
    /\ finished = <<>>
    /\ res = <<>>
    /\ pbar = 0
    /\ queue = <<>>
    /\ unfinished = 0
    /\ results_p = <<>>
    /\ worker = <<>>

SpecNamed == InitNamed /\ [][Next]_vars

\* the first mapping of revs that has the key
FirstWith(revs, key) ==
    revs[CHOOSE k \in 1..Len(revs) :
            /\ revs[k].key = key
            /\ \A j \in 1..(k - 1) : revs[j].key # key]

\* the last mapping of revs that has the key
LastWith(revs, key) ==
    revs[CHOOSE k \in 1..Len(revs) :
            /\ revs[k].key = key
            /\ \A j \in (k + 1)..Len(revs) : revs[j].key # key]

RECURSIVE ChainKeys(_)
\* The keys of ChainMap(*revs) in the order of its iteration: the mappings
\* are visited from the last to the first, a key keeps its first place.
ChainKeys(revs) ==
    IF revs = <<>> THEN <<>>
    ELSE LET k == revs[1].key
             rest == ChainKeys(Tail(revs))
         IN  IF \E j \in 1..Len(rest) : rest[j] = k
             THEN rest ELSE Append(rest, k)

\* Mutant of ChainMapDict: a later mapping overrides an earlier one
\* (the single-entry mappings are merged with dict.update).
ChainMapLastWins(revs) ==
    PyDict([j \in 1..Len(ChainKeys(revs)) |->
               <<ChainKeys(revs)[j], LastWith(revs, ChainKeys(revs)[j]).value>>])

\* revision_dict = dict(ChainMap(*revisions)): one entry for every key, the
\* value is the one of the first mapping that has the key.
ChainMapDict(revs) ==
    PyDict([j \in 1..Len(ChainKeys(revs)) |->
               <<ChainKeys(revs)[j], FirstWith(revs, ChainKeys(revs)[j]).value>>])

\* ------------------------------------------------- named and unnamed runners
\* The runners of direct mode with up to MaxPages pages a query: the first
\* descriptor and every second one after it is named by its title, the
\* others have no name.
InitWrap ==
    /\ \E n \in 1..SmallCeiling :
          queries = [i \in 1..n |->
                        [query |-> <<i>>,
                         name |-> IF i % 2 = 1 THEN i ELSE None]]
    /\ handler = "list"
    /\ npages = [i \in 1..Len(queries) |-> 0]
    /\ hq = [pc |-> "start", mode |-> "none", wikitexts |-> <<>>]
    /\ runner = [i \in 1..Len(queries) |-> NewRunner]
    /\ nfail = 0
    /\ finished = <<>>
    /\ res = <<>>
    /\ pbar = 0
    /\ queue = <<>>
    /\ unfinished = 0
    /\ results_p = <<>>
    /\ worker = <<>>

SpecWrap == InitWrap /\ [][NextRunner]_vars

\* ------------------------------------------------------------ mixed payloads
\* The runners of direct mode with a handler whose payload changes its type
\* after the first page.
InitMixed == InitDirect /\ handler \in {"listdict", "dictlist"}

SpecMixed == InitMixed /\ [][NextRunner]_vars

\* -------------------------------------------------------------- cancellation
\* The task of handle_queries is cancelled while it waits at line 229 or at
\* line 251: CancelledError leaves handle_queries there. No handler of the
\* function runs (there is no try/finally): lines 254-255 are skipped and
\* the tasks of the runners and of the workers are left as they are.
Cancel ==
    /\ hq.pc \in {"gather", "join"}
    /\ hq' = [hq EXCEPT !.pc = "cancelled"]
    /\ UNCHANGED <<queries, handler, npages, runner, nfail, finished, res,
                   pbar, queue, unfinished, results_p, worker>>

NextCancel == Next \/ Cancel

SpecCancel == Init /\ [][NextCancel]_vars

\* ---------------------------------------------------------------- claims
\* The runners in flight: started and neither returned nor raised.
InFlight == {i \in 1..N : runner[i].pc \in {"get", "text"}}

\* C1: when handle_queries returns, in direct mode and in pooled mode, the
\* returned collection has one entry for every input descriptor: as many
\* entries as descriptors, and the entries are the runners' return values,
\* each exactly once.
C1_Cardinality ==
    hq.pc = "returned" =>
        /\ Len(hq.wikitexts) = N
        /\ \E p \in Permutations(1..N) :
              \A k \in 1..N : hq.wikitexts[k] = runner[p[k]].ret

C1_Witness ==
    /\ hq.pc = "returned"
    /\ hq.mode = "pooled"
    /\ N > SmallCeiling
    /\ \E i \in 1..N : runner[i].nfailed > 0

\* C2: under fair scheduling handle_queries ends in the end, whatever
\* requests fail: it returns the outcomes or reports the failure.
C2_EventuallyReturns == <>(hq.pc \in {"returned", "raised"})

\* Nothing can run any more.
Quiescent == ~ENABLED Next

\* C3: once handle_queries has ended, or nothing can run any more, every
\* descriptor whose request did not raise has run to completion and its
\* result is in the collection handle_queries returned.
C3_FailureIsolation ==
    \A i \in 1..N :
        (/\ runner[i].pc # "raised"
         /\ \E j \in 1..N : runner[j].pc = "raised"
         /\ hq.pc \in {"returned", "raised"} \/ Quiescent)
        => /\ hq.pc = "returned"
           /\ runner[i].pc = "done"
           /\ \E k \in 1..Len(hq.wikitexts) : hq.wikitexts[k] = runner[i].ret

RECURSIVE SameTail(_)
\* the number of requests at the end of the log rs that repeat its last URL
SameTail(rs) ==
    IF Len(rs) <= 1 THEN Len(rs)
    ELSE IF rs[Len(rs) - 1] = rs[Len(rs)]
         THEN 1 + SameTail(SubSeq(rs, 1, Len(rs) - 1))
         ELSE 1

\* C4: a request is tried at most RetryLimit + 1 times; a runner fails only
\* when the retries of a request are exhausted (one failed request does not
\* fail it), and a runner is done only when its last page was served (after
\* a failed request it is retried or FAILED, never DONE).
C4_BoundedRetryThenFailed ==
    \A i \in 1..N :
        /\ SameTail(runner[i].requests) <= RetryLimit + 1
        /\ runner[i].pc = "raised" =>
               SameTail(runner[i].requests) = RetryLimit + 1
        /\ runner[i].pc = "done" => npages[i] # 0

RECURSIVE Chain(_, _, _, _)
\* The URLs of a query whose pages are all served: the base query, then the
\* query with the token of the response before, up to the response without
\* a token.
Chain(query, h, np, url) ==
    <<url>> \o (IF response_handler(h, np, url).contin = None THEN <<>>
                ELSE Chain(query, h, np,
                           query \o <<response_handler(h, np, url).contin>>))

\* The pages of descriptor i as far as its runner knows: all of them once
\* the last one is served, and before that as many as it has asked for.
KnownPages(i) ==
    IF npages[i] # 0 THEN npages[i] ELSE Len(runner[i].requests)

\* C5: a runner none of whose requests failed has issued the base query,
\* then the base query with the token of the response just before, in this
\* order; when it is done after k pages it has issued exactly these k
\* requests, and none after the response without a token.
C5_RequestSequence ==
    \A i \in 1..N :
        runner[i].nfailed = 0
        => /\ runner[i].request_count = Len(runner[i].requests)
           /\ runner[i].requests =
                  SubSeq(Chain(queries[i].query, handler, KnownPages(i),
                               queries[i].query),
                         1, Len(runner[i].requests))
           /\ runner[i].pc = "done" =>
                  /\ npages[i] >= 1
                  /\ Len(runner[i].requests) = npages[i]

C5_Witness ==
    \E i \in 1..N :
        /\ runner[i].pc = "done"
        /\ runner[i].nfailed = 0
        /\ Len(runner[i].requests) = MaxPages
        /\ MaxPages >= 3

RECURSIVE ConcatPages(_, _)
\* the items of pages 1..k of query q, page after page
ConcatPages(q, k) ==
    IF k = 0 THEN <<>>
    ELSE ConcatPages(q, k - 1) \o Payload("list", q, k).items

\* C6: with list payloads, the result of a runner that is done is the
\* concatenation of the pages it was served, in page order, whatever the
\* other runners did in between.
C6_SequenceMerge ==
    handler = "list" =>
        \A i \in 1..N :
            runner[i].pc = "done" =>
                runner[i].results =
                    PyList(ConcatPages(queries[i].query[1], npages[i]))

C6_Witness ==
    /\ handler = "list"
    /\ \E i, j \in 1..N :
          /\ i # j
          /\ runner[i].pc = "done"
          /\ npages[i] >= 2
          /\ runner[i].nfailed > 0
          /\ runner[j].pc = "text"
          /\ Len(runner[j].requests) >= 2

\* the keys of pages 1..k of query q
PageKeys(q, k) == UNION {Keys(Payload("dict", q, j).pairs) : j \in 1..k}

\* the last of the pages 1..k of query q that has key
LastPageWith(q, k, key) ==
    CHOOSE j \in 1..k :
        /\ key \in Keys(Payload("dict", q, j).pairs)
        /\ \A m \in (j + 1)..k : key \notin Keys(Payload("dict", q, m).pairs)

\* C7: with mapping payloads, the result of a runner that is done has every
\* key of the pages it was served, each key once, with the value of the
\* last page that has the key.
C7_MappingMerge ==
    handler = "dict" =>
        \A i \in 1..N :
            (runner[i].pc = "done" /\ npages[i] # 0) =>
                LET q == queries[i].query[1]
                    pairs == runner[i].results.pairs
                IN  /\ runner[i].results.type = "dict"
                    /\ Keys(pairs) = PageKeys(q, npages[i])
                    /\ Len(pairs) = Cardinality(Keys(pairs))
                    /\ \A key \in Keys(pairs) :
                          Lookup(pairs, key) =
                              Lookup(Payload("dict", q,
                                         LastPageWith(q, npages[i], key)).pairs,
                                     key)

C7_Witness ==
    /\ handler = "dict"
    /\ \E i \in 1..N :
          /\ runner[i].pc = "done"
          /\ npages[i] >= 2
          /\ Len(runner[i].results.pairs) >= 2

\* C8: handle_queries takes the direct mode exactly when it has at most
\* N_MAX_WORKERS (200) descriptors, 200 included, and the pooled mode, with
\* N_WORKERS (50) workers and every descriptor on the queue, exactly when it
\* has more.
C8_ModeSelection ==
    hq.pc # "start" =>
        /\ hq.mode = "direct" <=> N <= N_MAX_WORKERS
        /\ hq.mode = "pooled" <=> N > N_MAX_WORKERS
        /\ hq.mode = "direct" => worker = <<>> /\ queue = <<>>
        /\ hq.mode = "pooled" => Len(worker) = N_WORKERS /\ Len(queue) = N

C8_Witness ==
    /\ hq.pc = "gather"
    /\ hq.mode = "direct"
    /\ N = N_MAX_WORKERS

\* C9: in pooled mode at most as many runners are in flight as the pool has
\* workers, and every runner in flight is the one descriptor of one worker.
C9_PoolBound ==
    hq.mode = "pooled" =>
        /\ Cardinality(InFlight) <= SmallPool
        /\ \A i \in InFlight :
              Cardinality({w \in DOMAIN worker :
                              worker[w].pc = "run" /\ worker[w].cur = i}) = 1
        /\ \A w \in DOMAIN worker :
              worker[w].pc = "run" => worker[w].cur \in InFlight

C9_Witness ==
    /\ hq.mode = "pooled"
    /\ Cardinality(InFlight) = SmallPool
    /\ queue # <<>>

\* C10: in direct mode entry i of the returned collection is the return
\* value of the runner of descriptor i, in whatever order the runners
\* completed.
C10_DirectOrder ==
    (hq.pc = "returned" /\ hq.mode = "direct") =>
        /\ Len(hq.wikitexts) = N
        /\ \A i \in 1..N : hq.wikitexts[i] = runner[i].ret

C10_Witness ==
    /\ hq.pc = "returned"
    /\ hq.mode = "direct"
    /\ N >= 2
    /\ finished[1] # 1
    /\ hq.wikitexts[1] # hq.wikitexts[2]

\* C11: when every descriptor carries a resultName, the aggregated output is
\* a mapping with one entry per input descriptor: its keys are unique, its
\* cardinality is the number of descriptors and each descriptor's name is
\* mapped to that descriptor's own accumulated result.
C11_NamedUnion ==
    (hq.pc = "returned" /\ \A i \in 1..N : queries[i].name # None) =>
        LET d == ChainMapDict(hq.wikitexts).pairs
        IN  /\ Len(d) = N
            /\ Cardinality(Keys(d)) = Len(d)
            /\ \A i \in 1..N : Lookup(d, queries[i].name) = runner[i].results

Names == {queries[i].name : i \in 1..N}

\* C11 (amended): when every descriptor carries a resultName, the aggregated
\* output is a mapping with unique keys and one entry per distinct name; each
\* name is mapped to the accumulated result of a descriptor of that name,
\* the one that comes first in the returned collection. When the names are
\* pairwise distinct there is one entry per descriptor and each descriptor's
\* name is mapped to its own result.
C11_NamedUnionDistinct ==
    (hq.pc = "returned" /\ \A i \in 1..N : queries[i].name # None) =>
        LET d == ChainMapDict(hq.wikitexts).pairs
        IN  /\ Keys(d) = Names
            /\ Cardinality(Keys(d)) = Len(d)
            /\ \A k \in 1..N :
                  (\A j \in 1..(k - 1) : hq.wikitexts[j].key # hq.wikitexts[k].key)
                      => Lookup(d, hq.wikitexts[k].key) = hq.wikitexts[k].value
            /\ \A key \in Names :
                  \E i \in 1..N : /\ queries[i].name = key
                                  /\ Lookup(d, key) = runner[i].results
            /\ Cardinality(Names) = N =>
                  /\ Len(d) = N
                  /\ \A i \in 1..N :
                        Lookup(d, queries[i].name) = runner[i].results

\* Two descriptors of one name came back with different results, the one
\* with nothing first.
C11_Witness ==
    /\ hq.pc = "returned"
    /\ N >= 2
    /\ queries[N].name = queries[1].name
    /\ \E j, k \in 1..N :
          /\ j < k
          /\ hq.wikitexts[j].key = hq.wikitexts[k].key
          /\ hq.wikitexts[j].value = PyList(<<>>)
          /\ hq.wikitexts[k].value # PyList(<<>>)

\* C12: once handle_queries is cancelled, no descriptor is taken from the
\* queue any more and no runner issues a new request.
C12_CancelStops ==
    [][hq.pc = "cancelled" =>
          /\ queue' = queue
          /\ \A i \in 1..N : runner'[i].requests = runner[i].requests]_vars

\* What the descriptor i returns, from the descriptor and from the pages the
\* API served for it alone.
Expected(i) ==
    LET pages == PyList(ConcatPages(queries[i].query[1], npages[i]))
    IN  IF queries[i].name # None
        THEN PyNamed(queries[i].name, pages) ELSE pages

\* C13: the result handle_queries returns is a function of the descriptors
\* and of the responses of the API, whatever the interleaving: in direct
\* mode it is the list of the Expected results in input order, in pooled
\* mode the same results in some order. Two runs on the same descriptors and
\* the same responses therefore return the same results.
C13_Determinism ==
    hq.pc = "returned" =>
        /\ Len(hq.wikitexts) = N
        /\ hq.mode = "direct" => \A i \in 1..N : hq.wikitexts[i] = Expected(i)
        /\ \E p \in Permutations(1..N) :
              \A k \in 1..N : hq.wikitexts[k] = Expected(p[k])

\* A pooled run returned its results in another order than the input order.
C13_Witness ==
    /\ hq.pc = "returned"
    /\ hq.mode = "pooled"
    /\ \A i \in 1..N : npages[i] # 0
    /\ \E k \in 1..N : hq.wikitexts[k] # Expected(k)

Done == {i \in 1..N : runner[i].pc = "done"}

\* C14: the progress bar counts one event per descriptor, never before the
\* runner of the descriptor has finished: in direct mode one event for each
\* result gather has collected, each of another finished runner; in pooled
\* mode one event for each finished runner, in the step that appends its
\* result. When handle_queries returns the bar shows the number of
\* descriptors.
C14_Progress ==
    /\ pbar <= Cardinality(Done)
    /\ hq.mode = "direct" =>
          /\ pbar = Len(res)
          /\ \A k \in 1..Len(res) : res[k][1] \in Done
          /\ \A j, k \in 1..Len(res) : res[j][1] = res[k][1] => j = k
    /\ hq.mode = "pooled" => pbar = Cardinality(Done) /\ pbar = Len(results_p)
    /\ hq.pc = "returned" => pbar = N

\* A pooled run returned with a descriptor that had to wait for a worker.
C14_Witness ==
    /\ hq.pc = "returned"
    /\ hq.mode = "pooled"
    /\ N > SmallPool
    /\ pbar = N

\* The runner i was served a page after the first one (its payload is not of
\* the type of the first payload when the handler is a mixed one).
ServedLater(i) ==
    \/ npages[i] >= 2
    \/ runner[i].requests # <<>> /\ PageOf(LastUrl(runner[i])) >= 3

\* C15: a runner that is served a payload of another type than its first
\* payload fails: it does not go on to the next continuation token and it
\* does not return a result.
C15_ShapeMismatchFatal ==
    handler \in {"listdict", "dictlist"} =>
        \A i \in 1..N : ServedLater(i) => runner[i].pc = "raised"

\* C16: a failed attempt of a runner leaves its accumulated result and its
\* token unchanged; the runner does not end as done with the page of the
\* failed request missing, and when it tries again it sends the URL of the
\* failed attempt once more.
C16_RetryFrame ==
    [][\A i \in 1..N :
          runner'[i].nfailed > runner[i].nfailed =>
              /\ runner'[i].results = runner[i].results
              /\ runner'[i].contin = runner[i].contin
              /\ runner'[i].pc # "done"
              /\ runner'[i].pc = "get" =>
                    /\ Len(runner'[i].requests) = Len(runner[i].requests) + 1
                    /\ LastUrl(runner'[i]) = LastUrl(runner[i])]_vars

\* C17: in pooled mode a worker is cancelled only when the queue is empty
\* and every descriptor is acknowledged: no descriptor is in flight then
\* and the result of every descriptor is in results_p.
C17_CancelAfterDrain ==
    \A w \in DOMAIN worker :
        worker[w].pc = "cancelled" =>
            /\ queue = <<>>
            /\ unfinished = 0
            /\ InFlight = {}
            /\ \A i \in 1..N : runner[i].pc = "done"
            /\ Len(results_p) = N

\* The workers are cancelled after a run in which a descriptor waited on
\* the queue for a worker.
C17_Witness ==
    /\ hq.mode = "pooled"
    /\ N > SmallPool
    /\ \A w \in DOMAIN worker : worker[w].pc = "cancelled"

\* C18: in pooled mode the descriptors leave the queue in the order they
\* were put (what is left on the queue is the end of the input order, what
\* was started is its beginning); a descriptor in flight is held by one
\* worker, no worker holds two; a started runner sent its base query once;
\* results_p holds the result of every finished runner once.
C18_FifoExactlyOnce ==
    hq.mode = "pooled" =>
        /\ queue = [k \in 1..Len(queue) |-> N - Len(queue) + k]
        /\ \A i \in 1..N : runner[i].pc # "new" <=> i <= N - Len(queue)
        /\ \A i \in InFlight :
              Cardinality({w \in DOMAIN worker :
                              worker[w].pc = "run" /\ worker[w].cur = i}) = 1
        /\ \A i \in 1..N :
              runner[i].pc # "new" =>
                  Cardinality({k \in 1..Len(runner[i].requests) :
                                  runner[i].requests[k] = queries[i].query}) = 1
        /\ Len(results_p) = Cardinality(Done)
        /\ \A i \in Done :
              Cardinality({k \in 1..Len(results_p) :
                              results_p[k] = runner[i].ret})
                  = Cardinality({j \in Done : runner[j].ret = runner[i].ret})

\* Every worker took a descriptor, one descriptor is still on the queue.
C18_Witness ==
    /\ hq.mode = "pooled"
    /\ Len(queue) = 1
    /\ \A w \in DOMAIN worker : worker[w].pc = "run"
    /\ queue[1] = N

\* C19: a runner that is done returns {resultName: accumulated result} when
\* its descriptor has a name and the bare accumulated result when it has
\* none; before that it has returned nothing, and the accumulated result
\* itself is never a wrapped value.
C19_WrapOnce ==
    \A i \in 1..N :
        /\ runner[i].pc = "done" =>
              runner[i].ret =
                  IF queries[i].name # None
                  THEN [type |-> "dict", key |-> queries[i].name,
                        value |-> runner[i].results]
                  ELSE runner[i].results
        /\ runner[i].pc # "done" => runner[i].ret = PyOther
        /\ runner[i].results.type = "list"
        /\ DOMAIN runner[i].results = {"type", "items"}

\* A named runner is done after more than one page, next to an unnamed one.
C19_Witness ==
    /\ \E i \in 1..N : /\ runner[i].pc = "done"
                       /\ queries[i].name # None
                       /\ npages[i] >= 2
    /\ \E i \in 1..N : /\ runner[i].pc = "done"
                       /\ queries[i].name = None
                       /\ npages[i] >= 1

\* C20: when the first request of a runner fails inside the try block, the
\* runner sends no second request: in that step it is done, after exactly
\* one request, and returns the empty list ({name: []} when it has a name),
\* as it would for a resource that is empty.
C20_FirstFailureReturnsEmpty ==
    [][\A i \in 1..N :
          (/\ runner[i].pc = "text"
           /\ runner[i].request_count = 1
           /\ runner'[i].nfailed > runner[i].nfailed) =>
              /\ runner'[i].pc = "done"
              /\ runner'[i].requests = <<queries[i].query>>
              /\ runner'[i].ret =
                    IF queries[i].name # None
                    THEN [type |-> "dict", key |-> queries[i].name,
                          value |-> PyList(<<>>)]
                    ELSE PyList(<<>>)]_vars

\* A named runner is done with nothing after the failure of its one and
\* only request, and gather has collected that as its result.
C20_Witness ==
    \E i \in 1..N :
        /\ runner[i].pc = "done"
        /\ runner[i].nfailed = 1
        /\ runner[i].request_count = 1
        /\ queries[i].name # None
        /\ runner[i].ret.value = PyList(<<>>)
        /\ \E k \in 1..Len(res) : res[k] = <<i, runner[i].ret>>

\* The descriptors taken from the queue, those put on it, and those
\* acknowledged by task_done.
Dequeued == Cardinality({i \in 1..N : runner[i].pc # "new"})
Enqueued == Dequeued + Len(queue)
Acknowledged == Enqueued - unfinished

\* C21: in pooled mode, at every suspension point, results_p holds as many
\* results as descriptors are acknowledged, at most as many as were taken
\* from the queue, which are at most as many as were put on it; when
\* queue.join() has returned, results_p holds a result for every descriptor
\* that was put on the queue, and that is every descriptor.
C21_PooledCounts ==
    (hq.mode = "pooled") =>
        /\ Len(results_p) = Acknowledged
        /\ Acknowledged <= Dequeued
        /\ Dequeued <= Enqueued
        /\ Enqueued = N
        /\ hq.pc = "returned" =>
              /\ Len(results_p) = Enqueued
              /\ hq.wikitexts = results_p

\* A result is appended and acknowledged while another descriptor is in
\* flight and one more waits on the queue.
C21_Witness ==
    /\ hq.mode = "pooled"
    /\ hq.pc = "join"
    /\ Len(results_p) >= 1
    /\ Acknowledged < Dequeued
    /\ Dequeued < Enqueued

====
